---- MODULE Spec2Model ----
(***************************************************************************)
(* The migrate database drivers for Oracle (database/oracle/oracle.go) and *)
(* SQL Server (database/mssql/mssql.go): version store, advisory lock,     *)
(* migration executor and Drop, over one shared database schema.           *)
(*                                                                         *)
(* The database is modelled by what the SQL text in the drivers does on    *)
(* the backend it is sent to:                                              *)
(*   - Oracle: TRUNCATE TABLE and CREATE TABLE are DDL; DDL commits the    *)
(*     session's transaction before and after it runs and cannot be rolled *)
(*     back.  In static SQL inside PL/SQL a name that is both a column and *)
(*     a formal parameter denotes the column.                              *)
(*   - SQL Server: TRUNCATE TABLE is transactional; a batch sent outside a *)
(*     transaction runs in autocommit mode, one statement at a time.       *)
(* Driver calls are the actions.  SetVersion is one action per statement   *)
(* it sends; the other calls are one action each.                          *)
(***************************************************************************)
EXTENDS Integers, Sequences, FiniteSets, TLC

\* ------------------------------------------------------------- bounds
MaxVersion == 1
MaxKey == 1
MaxPayload == 2
MaxDoc == 3

\* ---------------------------------------------------------- constants
NilVersion == -1

DefaultMigrationsTable == "schema_migrations"

Backends == {"oracle", "mssql"}

Drivers == {"d1", "d2"}

UserTables == {"users"}

Keys == 1..MaxKey

\* versions a caller may pass to SetVersion: the sentinel, another negative
\* number, and real versions
ArgVersions == (-2)..MaxVersion

Faults == {"none", "vendor", "generic"}

\* --------------------------------------------------------------- errors
\* []byte(query): the bytes of a statement's text; a migration's bytes are
\* the sequence of its instructions
bytes(query) == IF query = "" THEN <<>> ELSE <<[kind |-> "sql", t |-> query, k |-> 0]>>

\* an error value; Err and Query are the fields of database.Error
Error(kind, msg, query) == [kind |-> kind, Err |-> msg, Query |-> query]

NoErr == Error("nil", "", <<>>)

ErrLocked == Error("ErrLocked", "", <<>>)

ErrNilConfig == Error("ErrNilConfig", "no config", <<>>)

ErrNoSchema == Error("ErrNoSchema", "no schema", <<>>)

ErrNoDatabaseName == Error("ErrNoDatabaseName", "no database name", <<>>)

\* an error of the sql package or the connection, returned as it is
RawErr == Error("raw", "", <<>>)

\* database.Error{Err: msg, Query: []byte(query)}
DatabaseError(msg, query) == Error("database.Error", msg, bytes(query))

VARIABLES env, db, drv, pc, call, last, everSet, mongo

vars == <<env, db, drv, pc, call, last, everSet, mongo>>

\* ------------------------------------------------------------- database
Row(version, dirty) == [version |-> version, dirty |-> dirty]

NoTable == [exists |-> FALSE, keys |-> {}]

EmptyDb == [ctlExists |-> FALSE, ctl |-> {}, usr |-> [t \in UserTables |-> NoTable]]

\* names of the tables the schema holds
TableNames(d) ==
    (IF d.ctlExists THEN {DefaultMigrationsTable} ELSE {})
        \cup {t \in UserTables : d.usr[t].exists}

DropTables(d, names) ==
    [ctlExists |-> d.ctlExists /\ DefaultMigrationsTable \notin names,
     ctl |-> IF DefaultMigrationsTable \in names THEN {} ELSE d.ctl,
     usr |-> [t \in UserTables |-> IF t \in names THEN NoTable ELSE d.usr[t]]]

createAnew(backend, d) == [d EXCEPT !.ctlExists = TRUE, !.ctl = {}]

\* CREATE TABLE of the control table when the driver's existence test says it
\* is missing.  mssql.go:300 tests sysobjects for the table's own name.
\* oracle.go:312 compares USER_TABLES.table_name with the procedure's formal
\* parameter TABLE_NAME inside static SQL, where the name denotes the column:
\* the count is that of all tables of the schema.
createIfNotExists(backend, d) ==
    LET missing == IF backend = "oracle" THEN TableNames(d) = {} ELSE ~d.ctlExists
    IN  IF missing THEN [d EXCEPT !.ctlExists = TRUE, !.ctl = {}] ELSE d

\* ---------------------------------------------------------------- driver
NoConfig == [MigrationsTable |-> "", DatabaseName |-> "", SchemaName |-> ""]

\* a driver variable that holds no driver; nilConfig says the config pointer
\* of a driver struct is nil
NoDriver == [state |-> "none", isLocked |-> FALSE, config |-> NoConfig, nilConfig |-> TRUE]

\* init(): the zero value of the driver struct, registered under the
\* driver's name
init == [state |-> "registered", isLocked |-> FALSE, config |-> NoConfig, nilConfig |-> TRUE]

\* what a call does that reads a field through a nil pointer
Panic == Error("panic", "invalid memory address or nil pointer dereference", <<>>)

GenerateAdvisoryLockId(databaseName, schemaName) ==
    [id |-> <<databaseName, schemaName>>, err |-> NoErr]

lockNames(backend, config) ==
    IF backend = "mssql"
    THEN GenerateAdvisoryLockId(config.DatabaseName, config.SchemaName)
    ELSE GenerateAdvisoryLockId(config.SchemaName, "")

LockReentrant(backend, r) == [drv |-> [r EXCEPT !.isLocked = TRUE], err |-> NoErr]

\* Lock on driver value r: the driver after the call and the error returned
Lock(backend, r) ==
    IF r.isLocked THEN [drv |-> r, err |-> ErrLocked]
    ELSE IF r.nilConfig THEN [drv |-> r, err |-> Panic]
    ELSE LET g == lockNames(backend, r.config)
         IN  IF g.err # NoErr THEN [drv |-> r, err |-> g.err]
             ELSE [drv |-> [r EXCEPT !.isLocked = TRUE], err |-> NoErr]

UnlockStrict(backend, r) ==
    IF ~r.isLocked THEN [drv |-> r, err |-> ErrLocked]
    ELSE [drv |-> [r EXCEPT !.isLocked = FALSE], err |-> NoErr]

Unlock(backend, r) ==
    IF ~r.isLocked THEN [drv |-> r, err |-> NoErr]
    ELSE IF r.nilConfig THEN [drv |-> r, err |-> Panic]
    ELSE LET g == lockNames(backend, r.config)
         IN  IF g.err # NoErr THEN [drv |-> r, err |-> g.err]
             ELSE [drv |-> [r EXCEPT !.isLocked = FALSE], err |-> NoErr]

ensureVersionTableKeepsLock(backend, r, d, fault) ==
    LET l == Lock(backend, r)
        bodyErr == IF fault \in {"proc", "create"}
                   THEN DatabaseError("", "CREATE TABLE") ELSE NoErr
    IN  IF l.err # NoErr THEN [drv |-> r, db |-> d, err |-> l.err]
        ELSE [drv |-> l.drv,
              db |-> IF bodyErr = NoErr THEN createIfNotExists(backend, d) ELSE d,
              err |-> bodyErr]

\* ensureVersionTable on driver value r; fault names the statement the
\* backend fails ("none", "proc", "create")
ensureVersionTable(backend, r, d, fault) ==
    LET l == Lock(backend, r)
        bodyErr ==
            IF backend = "oracle" /\ fault = "proc"
            THEN DatabaseError("", "CREATE OR REPLACE procedure proc_createifnotexists")
            ELSE IF fault = "create"
            THEN DatabaseError("", IF backend = "oracle"
                                   THEN "BEGIN proc_createifnotexists"
                                   ELSE "IF NOT EXISTS CREATE TABLE")
            ELSE NoErr
        d2 == IF bodyErr = NoErr THEN createIfNotExists(backend, d) ELSE d
        u == Unlock(backend, l.drv)
        err == IF u.err = NoErr THEN bodyErr
               ELSE IF bodyErr = NoErr THEN u.err
               ELSE Error("multierror", "", bodyErr.Query)
    IN  IF l.err # NoErr THEN [drv |-> r, db |-> d, err |-> l.err]
        ELSE [drv |-> u.drv, db |-> d2, err |-> err]

\* the steps of WithInstance the backend can fail: the DB_NAME() query is
\* sent by the SQL Server driver only, the procedure created by the Oracle
\* driver only
WithInstanceFaults(backend) ==
    {"none", "ping", "schemaquery", "conn", "create"}
        \cup (IF backend = "mssql" THEN {"dbquery"} ELSE {"proc"})

WithInstanceDefaultsIdentity(cfgNil, given, e, d, fault) ==
    LET fail(err) == [drv |-> NoDriver, db |-> d, err |-> err]
        c1 == IF e.backend = "mssql" /\ given.DatabaseName = ""
              THEN [given EXCEPT !.DatabaseName = e.databaseName]
              ELSE [given EXCEPT !.DatabaseName = IF e.backend = "mssql" THEN @ ELSE ""]
        c2 == IF c1.SchemaName = "" THEN [c1 EXCEPT !.SchemaName = e.schemaName] ELSE c1
        c3 == IF c2.MigrationsTable = ""
              THEN [c2 EXCEPT !.MigrationsTable = DefaultMigrationsTable]
              ELSE c2
        r == [state |-> "open", isLocked |-> FALSE, config |-> c3, nilConfig |-> FALSE]
        ev == ensureVersionTable(e.backend, r, d, fault)
    IN  IF cfgNil THEN fail(ErrNilConfig)
        ELSE IF fault \in {"ping", "conn"} THEN fail(RawErr)
        ELSE IF fault \in {"dbquery", "schemaquery"} THEN fail(DatabaseError("", "SELECT"))
        ELSE IF e.backend = "mssql" /\ e.databaseName = "" THEN fail(ErrNoDatabaseName)
        ELSE IF e.schemaName = "" THEN fail(ErrNoSchema)
        ELSE IF ev.err # NoErr THEN [drv |-> NoDriver, db |-> ev.db, err |-> ev.err]
        ELSE [drv |-> ev.drv, db |-> ev.db, err |-> NoErr]

\* WithInstance(instance, config): cfgNil says the caller passed a nil
\* config, given is the config passed otherwise, e the backend (its kind and
\* the identity it reports), fault the step the backend fails
WithInstance(cfgNil, given, e, d, fault) ==
    LET fail(err) == [drv |-> NoDriver, db |-> d, err |-> err]
        c1 == IF e.backend = "mssql"
              THEN [given EXCEPT !.DatabaseName = e.databaseName]
              ELSE [given EXCEPT !.DatabaseName = ""]
        c2 == [c1 EXCEPT !.SchemaName = e.schemaName]
        c3 == IF c2.MigrationsTable = ""
              THEN [c2 EXCEPT !.MigrationsTable = DefaultMigrationsTable]
              ELSE c2
        r == [state |-> "open", isLocked |-> FALSE, config |-> c3, nilConfig |-> FALSE]
        ev == ensureVersionTable(e.backend, r, d, fault)
    IN  IF cfgNil THEN fail(ErrNilConfig)
        ELSE IF fault = "ping" THEN fail(RawErr)
        ELSE IF e.backend = "mssql" /\ fault = "dbquery"
            THEN fail(DatabaseError("", "SELECT DB_NAME()"))
        ELSE IF e.backend = "mssql" /\ e.databaseName = "" THEN fail(ErrNoDatabaseName)
        ELSE IF fault = "schemaquery"
            THEN fail(DatabaseError("", IF e.backend = "mssql" THEN "SELECT SCHEMA_NAME()"
                                        ELSE "select sys_context('userenv','db_name') from dual"))
        ELSE IF e.schemaName = "" THEN fail(ErrNoSchema)
        ELSE IF fault = "conn" THEN fail(RawErr)
        ELSE IF ev.err # NoErr THEN [drv |-> NoDriver, db |-> ev.db, err |-> ev.err]
        ELSE [drv |-> ev.drv, db |-> ev.db, err |-> NoErr]

\* fmt's %v of an error value: its text, "<nil>" for a nil error
fmtV(failed, text) == IF failed THEN text ELSE "<nil>"

CloseStopsAtFirstError(connErr, dbErr) ==
    IF connErr
    THEN [closed |-> {"conn"}, err |-> Error("fmt.Errorf", "conn: connErr", <<>>)]
    ELSE [closed |-> {"conn", "db"},
          err |-> IF dbErr THEN Error("fmt.Errorf", "db: dbErr", <<>>) ELSE NoErr]

\* Close: conn.Close() then db.Close(), connErr and dbErr saying which of
\* them fails; closed names the ones Close was called on
Close(connErr, dbErr) ==
    [closed |-> {"conn", "db"},
     err |-> IF connErr \/ dbErr
             THEN Error("fmt.Errorf",
                        "conn: " \o fmtV(connErr, "connErr") \o ", db: " \o fmtV(dbErr, "dbErr"),
                        <<>>)
             ELSE NoErr]

\* ---------------------------------------------------------- version store
b2iAlwaysZero(dirty) == 0

\* the bool-to-number table of the INSERT statement
b2i(dirty) == IF dirty THEN 1 ELSE 0

\* Scan of the dirty column into a Go bool: 1 is true, 0 is false
scanBool(n) == n = 1

\* What the backend answers to the SELECT of Version on database d: a row of
\* the table, no row, a vendor error (the table is missing, or the fault the
\* server raises, such as a denied permission), or a driver-level error
QueryOutcomes(d, fault) ==
    IF fault = "generic" THEN {[kind |-> "generic", row |-> Row(0, 0)]}
    ELSE IF fault = "vendor" \/ ~d.ctlExists THEN {[kind |-> "vendor", row |-> Row(0, 0)]}
    ELSE IF d.ctl = {} THEN {[kind |-> "norows", row |-> Row(0, 0)]}
    ELSE {[kind |-> "row", row |-> r] : r \in d.ctl}

VersionZeroOnNoRows(q) ==
    IF q.kind = "row"
    THEN [version |-> q.row.version, dirty |-> scanBool(q.row.dirty), err |-> NoErr]
    ELSE [version |-> 0, dirty |-> FALSE,
          err |-> IF q.kind = "generic" THEN DatabaseError("", "SELECT version, dirty") ELSE NoErr]

\* Version's switch on the error of QueryRowContext(...).Scan
Version(q) ==
    CASE q.kind = "norows" -> [version |-> NilVersion, dirty |-> FALSE, err |-> NoErr]
      [] q.kind = "vendor" -> [version |-> NilVersion, dirty |-> FALSE, err |-> NoErr]
      [] q.kind = "generic" ->
            [version |-> 0, dirty |-> FALSE, err |-> DatabaseError("", "SELECT version, dirty")]
      [] OTHER -> [version |-> q.row.version, dirty |-> scanBool(q.row.dirty), err |-> NoErr]

\* the rows of the control table as the transaction tx sees them
TxView(d, tx) == (IF tx.cleared THEN {} ELSE d.ctl) \cup tx.ins

NoTx == [cleared |-> FALSE, ins |-> {}]

truncateNothing(backend, d, tx) == [db |-> d, tx |-> tx]

\* TRUNCATE TABLE inside the transaction: on Oracle the statement is DDL and
\* is committed as it runs; on SQL Server it is part of the transaction
truncate(backend, d, tx) ==
    IF backend = "oracle"
    THEN [db |-> [d EXCEPT !.ctl = {}], tx |-> NoTx]
    ELSE [db |-> d, tx |-> [cleared |-> TRUE, ins |-> {}]]

\* INSERT INTO table (version, dirty) VALUES (version, b2i[dirty])
insert(tx, version, dirty) == [tx EXCEPT !.ins = @ \cup {Row(version, b2i(dirty))}]

insertsRowUnlessSentinel(version) == version # NilVersion

insertsRowAlways(version) == TRUE

\* the guard of the INSERT in SetVersion
insertsRow(version) == version >= 0

commit(d, tx) == [d EXCEPT !.ctl = TxView(d, tx)]

\* ------------------------------------------------------ migration executor
Instr(kind, t, k) == [kind |-> kind, t |-> t, k |-> k]

Instrs ==
    {Instr("create", t, 0) : t \in UserTables}
        \cup {Instr("insert", t, k) : t \in UserTables, k \in Keys}

RECURSIVE SeqsUpTo(_, _)
SeqsUpTo(S, n) ==
    IF n = 0 THEN {<<>>}
    ELSE LET shorter == SeqsUpTo(S, n - 1)
         IN  shorter \cup {Append(p, i) : p \in {q \in shorter : Len(q) = n - 1}, i \in S}

Payloads == SeqsUpTo(Instrs, MaxPayload) \ {<<>>}

\* whether the backend can run the instruction on database d
canExec(d, i) ==
    IF i.kind = "create" THEN ~d.usr[i.t].exists
    ELSE d.usr[i.t].exists /\ i.k \notin d.usr[i.t].keys

exec(d, i) ==
    IF i.kind = "create" THEN [d EXCEPT !.usr[i.t] = [exists |-> TRUE, keys |-> {}]]
    ELSE [d EXCEPT !.usr[i.t].keys = @ \cup {i.k}]

\* an instruction the backend commits as it runs: every statement of a batch
\* in SQL Server's autocommit mode, DDL on Oracle
commitsAlone(backend, i) == backend = "mssql" \/ i.kind = "create"

\* ExecContext(query) on the connection, outside any transaction: committed
\* is what the database holds for good, working what the statement has done
\* so far.  The result is the database after the call and whether it failed.
RECURSIVE execContext(_, _, _, _)
execContext(backend, payload, committed, working) ==
    IF payload = <<>> THEN [db |-> working, ok |-> TRUE]
    ELSE LET i == Head(payload)
         IN  IF commitsAlone(backend, i)
             THEN IF canExec(working, i)
                  THEN execContext(backend, Tail(payload), exec(working, i), exec(working, i))
                  ELSE [db |-> working, ok |-> FALSE]
             ELSE IF canExec(working, i)
                  THEN execContext(backend, Tail(payload), committed, exec(working, i))
                  ELSE [db |-> committed, ok |-> FALSE]

RunFaults == {"none", "read", "generic"}

\* the payloads and faults of a Run call: a call that fails before the
\* backend runs anything is tried with the one-statement payloads only
RunInputs ==
    {<<p, "none">> : p \in Payloads}
        \cup {<<p, f>> : p \in {q \in Payloads : Len(q) = 1}, f \in RunFaults \ {"none"}}

RunQueryOnVendorErrorOnly(backend, payload, d, fault) ==
    LET x == execContext(backend, payload, d, d)
    IN  IF fault = "read" THEN [db |-> d, err |-> RawErr]
        ELSE IF fault = "generic"
            THEN [db |-> d, err |-> Error("database.Error", "migration failed", <<>>)]
        ELSE IF ~x.ok
            THEN [db |-> x.db, err |-> Error("database.Error", "vendor message", payload)]
        ELSE [db |-> x.db, err |-> NoErr]

\* Run(migration): fault "read" fails ioutil.ReadAll, "generic" fails the
\* ExecContext call with an error that is no vendor error; migr, the bytes
\* read, is the payload
Run(backend, payload, d, fault) ==
    LET migr == payload
        x == execContext(backend, payload, d, d)
    IN  IF fault = "read" THEN [db |-> d, err |-> RawErr]
        ELSE IF fault = "generic"
            THEN [db |-> d, err |-> Error("database.Error", "migration failed", migr)]
        ELSE IF ~x.ok
            THEN [db |-> x.db, err |-> Error("database.Error", "vendor message", migr)]
        ELSE [db |-> x.db, err |-> NoErr]

\* ------------------------------------------- document store (TestTransaction)
\* values of the field "wild", on which the collection has a unique index
Docs == 1..MaxDoc

\* a payload of insert commands, one document each
DocPayloads == SeqsUpTo(Docs, MaxPayload) \ {<<>>}

\* the insert commands run one after the other, each on its own: the
\* documents the collection holds afterwards and whether a command failed
RECURSIVE insertEach(_, _)
insertEach(cmds, docs) ==
    IF cmds = <<>> THEN [docs |-> docs, failed |-> FALSE]
    ELSE LET rest == insertEach(Tail(cmds), docs \cup {Head(cmds)})
         IN  [docs |-> rest.docs, failed |-> rest.failed \/ Head(cmds) \in docs]

MongoRunKeepsEarlier(transactionMode, cmds, docs) ==
    LET x == insertEach(cmds, docs)
    IN  [docs |-> x.docs,
         err |-> IF x.failed THEN DatabaseError("migration failed", "cmds") ELSE NoErr]

\* Run of the document-store driver: with TransactionMode the commands run in
\* one transaction that is aborted at the first error, nothing committed;
\* without it every command is attempted on its own
MongoRun(transactionMode, cmds, docs) ==
    LET x == insertEach(cmds, docs)
    IN  IF ~x.failed THEN [docs |-> x.docs, err |-> NoErr]
        ELSE [docs |-> IF transactionMode THEN docs ELSE x.docs,
              err |-> DatabaseError("migration failed", "cmds")]

\* the collection "hello" after the test has created it and its unique
\* index; no driver constructed, no payload run yet
NoMongo ==
    [open |-> FALSE, TransactionMode |-> FALSE, docs |-> {},
     ran |-> FALSE, mode |-> FALSE, cmds |-> <<>>, before |-> {}, err |-> NoErr]

\* --------------------------------------------------------------------- drop
DropFaults(backend) ==
    {"none", "query", "drop"} \cup (IF backend = "oracle" THEN {"proc"} ELSE {})

\* the faults of a Drop call and, for a failing DROP, the tables dropped
\* before it: some of the tables, not all
DropInputs(backend, d) ==
    {<<f, {}>> : f \in DropFaults(backend)}
        \cup {<<"drop", done>> : done \in (SUBSET TableNames(d)) \ {TableNames(d)}}

DropUserTablesOnly(backend, d, fault, done) ==
    [db |-> DropTables(d, {t \in UserTables : d.usr[t].exists}), err |-> NoErr]

\* Drop(): the tables are enumerated, then dropped one by one; with fault
\* "drop" the tables of done are dropped before a DROP fails
Drop(backend, d, fault, done) ==
    IF fault = "query" THEN [db |-> d, err |-> DatabaseError("", "SELECT TABLE_NAME")]
    ELSE IF backend = "oracle" /\ fault = "proc"
        THEN [db |-> d, err |-> DatabaseError("", "CREATE OR REPLACE procedure proc_dropifexists")]
    ELSE IF fault = "drop" /\ TableNames(d) # {}
        THEN [db |-> DropTables(d, done), err |-> DatabaseError("", "DROP TABLE")]
    ELSE [db |-> DropTables(d, TableNames(d)), err |-> NoErr]

\* ------------------------------------------------------------------ state
\* env: the backend and the identity it reports; db: the schema's tables;
\* drv: the driver objects; pc, call: where a SetVersion in progress stands,
\* its arguments, the control table at its start and its transaction;
\* last: the most recent call and what it returned (Running until it does);
\* everSet: whether SetVersion was ever called on this database
NoCall ==
    [version |-> 0, dirty |-> FALSE, after |-> "",
     pre |-> [ctlExists |-> FALSE, ctl |-> {}], tx |-> NoTx]

\* the arguments of SetVersion
Args(version, dirty) == [version |-> version, dirty |-> dirty]

NoArgs == Args(0, FALSE)

\* a call of op on driver d: after names the calls it directly follows (see
\* After), args are the arguments of SetVersion (of the SetVersion a Version
\* call follows), err, rv, rd what it returned, fault what the backend did;
\* payload is the migration a Run that returned an error was given
Returned(d, op, after, args, err, rv, rd, fault) ==
    [drv |-> d, op |-> op, after |-> after, args |-> args, err |-> err,
     rv |-> rv, rd |-> rd, fault |-> fault, payload |-> <<>>]

Running == Error("running", "", <<>>)

Envs ==
    {[backend |-> "oracle", databaseName |-> "", schemaName |-> s] : s \in {"", "ORCL"}}
        \cup {[backend |-> "mssql", databaseName |-> n, schemaName |-> s] :
                n \in {"", "master"}, s \in {"", "dbo"}}

\* the configs a caller passes: the zero Config, and one with every field set
GivenConfigs ==
    {NoConfig,
     [MigrationsTable |-> DefaultMigrationsTable, DatabaseName |-> "path", SchemaName |-> "path"]}

\* the arguments and faults of a WithInstance call: a nil config, or a
\* config and the step that fails
WithInstanceInputs(backend) ==
    {<<TRUE, NoConfig, "none">>}
        \cup {<<FALSE, g, f>> : g \in GivenConfigs, f \in WithInstanceFaults(backend)}

Init ==
    /\ env \in Envs
    /\ db = EmptyDb
    /\ drv = [d \in Drivers |-> NoDriver]
    /\ pc = [d \in Drivers |-> "idle"]
    /\ call = [d \in Drivers |-> NoCall]
    /\ last = Returned("d1", "none", "", NoArgs, NoErr, 0, FALSE, "none")
    /\ everSet = FALSE
    /\ mongo = NoMongo

Idle(d) == pc[d] = "idle"

\* the calls a call on driver d directly follows, when the call before it
\* was a call of ops on d that returned no error: its name, behind the names
\* that call followed
After(d, ops) ==
    IF last.drv = d /\ last.err = NoErr /\ last.op \in ops
    THEN IF last.op = "SetVersion" /\ last.after # "" THEN "SetVersion,SetVersion" ELSE last.op
    ELSE ""

Open(d) == drv[d].state = "open" /\ Idle(d)

\* SQL Server: the transaction of e has run TRUNCATE TABLE and holds the
\* table's schema-modification lock until it commits or rolls back
HoldsTableLock(e) == env.backend = "mssql" /\ pc[e] # "idle" /\ call[e].tx.cleared

\* a statement of d on the control table waits while another session holds
\* that lock
Waits(d) == \E e \in Drivers \ {d} : HoldsTableLock(e)

\* Oracle: the rows other sessions have inserted and not committed yet
Uncommitted(d) ==
    IF env.backend = "oracle" THEN UNION {call[e].tx.ins : e \in Drivers \ {d}} ELSE {}

CallWithInstance(d) ==
    /\ Idle(d)
    /\ drv[d].state # "open"
    /\ \E in \in WithInstanceInputs(env.backend) :
          LET fault == in[3]
              w == WithInstance(in[1], in[2], env, db, fault)
          IN  /\ drv' = [drv EXCEPT ![d] = w.drv]
              /\ db' = w.db
              /\ last' = Returned(d, "WithInstance", "", NoArgs, w.err, 0, FALSE, fault)
    /\ UNCHANGED <<env, pc, call, everSet>>

CallClose(d) ==
    /\ Open(d)
    /\ \E connErr \in BOOLEAN, dbErr \in BOOLEAN :
          LET c == Close(connErr, dbErr)
              fault == IF connErr THEN (IF dbErr THEN "conn,db" ELSE "conn")
                       ELSE (IF dbErr THEN "db" ELSE "none")
          IN  /\ last' = Returned(d, "Close", "", NoArgs, c.err, 0, FALSE, fault)
              /\ drv' = [drv EXCEPT ![d].state =
                            IF c.closed = {"conn", "db"} THEN "closed" ELSE "conn closed"]
    /\ UNCHANGED <<env, db, pc, call, everSet>>

CallLock(d) ==
    /\ Open(d)
    /\ LET l == Lock(env.backend, drv[d])
       IN  /\ drv' = [drv EXCEPT ![d] = l.drv]
           /\ last' = Returned(d, "Lock", After(d, {"WithInstance"}), NoArgs,
                               l.err, 0, FALSE, "none")
    /\ UNCHANGED <<env, db, pc, call, everSet>>

CallUnlock(d) ==
    /\ Open(d)
    /\ LET u == Unlock(env.backend, drv[d])
       IN  /\ drv' = [drv EXCEPT ![d] = u.drv]
           /\ last' = Returned(d, "Unlock", After(d, {"WithInstance", "Unlock"}), NoArgs,
                               u.err, 0, FALSE, "none")
    /\ UNCHANGED <<env, db, pc, call, everSet>>

CallRun(d) ==
    /\ Open(d)
    /\ \E in \in RunInputs :
          LET r == Run(env.backend, in[1], db, in[2])
          IN  /\ db' = r.db
              /\ last' = [Returned(d, "Run", "", NoArgs, r.err, 0, FALSE, in[2])
                             EXCEPT !.payload = IF r.err = NoErr THEN <<>> ELSE in[1]]
    /\ UNCHANGED <<env, drv, pc, call, everSet>>

CallVersionRepairs(d) ==
    /\ Open(d)
    /\ ~Waits(d)
    /\ \E fault \in Faults : \E q \in QueryOutcomes(db, fault) :
          LET v == Version(q)
          IN  last' = Returned(d, "Version", After(d, {"WithInstance", "Drop", "SetVersion"}),
                               IF After(d, {"SetVersion"}) = "" THEN NoArgs ELSE last.args,
                               v.err, v.version, v.dirty, fault)
    /\ db' = [db EXCEPT !.ctl = {Row(r.version, 0) : r \in @}]
    /\ UNCHANGED <<env, drv, pc, call, everSet>>

CallVersion(d) ==
    /\ Open(d)
    /\ ~Waits(d)
    /\ \E fault \in Faults : \E q \in QueryOutcomes(db, fault) :
          LET v == Version(q)
          IN  last' = Returned(d, "Version", After(d, {"WithInstance", "Drop", "SetVersion"}),
                               IF After(d, {"SetVersion"}) = "" THEN NoArgs ELSE last.args,
                               v.err, v.version, v.dirty, fault)
    /\ UNCHANGED <<env, db, drv, pc, call, everSet>>

CallDropResetsLock(d) ==
    /\ Open(d)
    /\ \E in \in DropInputs(env.backend, db) :
          LET r == Drop(env.backend, db, in[1], in[2])
          IN  /\ db' = r.db
              /\ last' = Returned(d, "Drop", "", NoArgs, r.err, 0, FALSE, in[1])
    /\ drv' = [drv EXCEPT ![d].isLocked = FALSE]
    /\ UNCHANGED <<env, pc, call, everSet>>

CallDrop(d) ==
    /\ Open(d)
    /\ \E in \in DropInputs(env.backend, db) :
          LET r == Drop(env.backend, db, in[1], in[2])
          IN  /\ db' = r.db
              /\ last' = Returned(d, "Drop", "", NoArgs, r.err, 0, FALSE, in[1])
    /\ UNCHANGED <<env, drv, pc, call, everSet>>

\* SetVersion returns err from the step named by fault; its transaction ends.
\* last keeps the arguments of a call that returned no error.
svReturn(d, err, fault) ==
    /\ pc' = [pc EXCEPT ![d] = "idle"]
    /\ call' = [call EXCEPT ![d] = NoCall]
    /\ last' = IF err = NoErr
               THEN Returned(d, "SetVersion", call[d].after,
                             Args(call[d].version, call[d].dirty), err, 0, FALSE, fault)
               ELSE Returned(d, "SetVersion", "", NoArgs, err, 0, FALSE, fault)

\* SetVersion(version, dirty): conn.BeginTx
SetVersionBegin(d) ==
    /\ Open(d)
    /\ \E version \in ArgVersions, dirty \in BOOLEAN, fail \in BOOLEAN :
          IF fail
          THEN /\ last' = Returned(d, "SetVersion", "", NoArgs,
                                   DatabaseError("transaction start failed", ""), 0, FALSE, "begin")
               /\ UNCHANGED <<pc, call>>
          ELSE /\ pc' = [pc EXCEPT ![d] = "truncate"]
               /\ call' = [call EXCEPT ![d] =
                            [version |-> version, dirty |-> dirty,
                             after |-> After(d, {"SetVersion"}),
                             pre |-> [ctlExists |-> db.ctlExists, ctl |-> db.ctl],
                             tx |-> NoTx]]
               /\ last' = Returned(d, "SetVersion", "", NoArgs, Running, 0, FALSE, "none")
    /\ everSet' = TRUE
    /\ UNCHANGED <<env, db, drv>>

\* tx.Exec(TRUNCATE TABLE ...), and tx.Rollback() when it fails.  On Oracle
\* the statement fails at once (resource busy) while another session has
\* uncommitted rows in the table.
SetVersionTruncate(d) ==
    /\ pc[d] = "truncate"
    /\ ~Waits(d)
    /\ \E fail \in BOOLEAN :
          IF fail \/ ~db.ctlExists \/ Uncommitted(d) # {}
          THEN /\ svReturn(d, DatabaseError("", "TRUNCATE TABLE"), "truncate")
               /\ UNCHANGED db
          ELSE LET t == truncate(env.backend, db, call[d].tx)
               IN  /\ db' = t.db
                   /\ call' = [call EXCEPT ![d].tx = t.tx,
                                            ![d].pre = [ctlExists |-> db.ctlExists, ctl |-> db.ctl]]
                   /\ pc' = [pc EXCEPT ![d] =
                               IF insertsRow(call[d].version) THEN "insert" ELSE "commit"]
                   /\ UNCHANGED last
    /\ UNCHANGED <<env, drv, everSet>>

\* tx.Exec(INSERT INTO ...), and tx.Rollback() when it fails.  The statement
\* waits while another session has an uncommitted row with the same key.
SetVersionInsert(d) ==
    /\ pc[d] = "insert"
    /\ call[d].version \notin {r.version : r \in Uncommitted(d)}
    /\ \E fail \in BOOLEAN :
          IF fail \/ call[d].version \in {r.version : r \in TxView(db, call[d].tx)}
          THEN svReturn(d, DatabaseError("", "INSERT INTO"), "insert")
          ELSE /\ call' = [call EXCEPT ![d].tx = insert(@, call[d].version, call[d].dirty)]
               /\ pc' = [pc EXCEPT ![d] = "commit"]
               /\ UNCHANGED last
    /\ UNCHANGED <<env, db, drv, everSet>>

\* tx.Commit()
SetVersionCommit(d) ==
    /\ pc[d] = "commit"
    /\ \E fail \in BOOLEAN :
          IF fail
          THEN /\ svReturn(d, DatabaseError("transaction commit failed", ""), "commit")
               /\ UNCHANGED db
          ELSE /\ svReturn(d, NoErr, "none")
               /\ db' = commit(db, call[d].tx)
    /\ UNCHANGED <<env, drv, everSet>>

\* Lock() or Unlock() called on the driver value that init registered
CallRegistered ==
    /\ \A d \in Drivers : Idle(d)
    /\ \E op \in {"Lock", "Unlock"} :
          LET x == IF op = "Lock" THEN Lock(env.backend, init) ELSE Unlock(env.backend, init)
          IN  last' = Returned("registered", op, "", NoArgs, x.err, 0, FALSE, "none")
    /\ UNCHANGED <<env, db, drv, pc, call, everSet>>

Step(d) ==
    \/ CallWithInstance(d)
    \/ CallClose(d)
    \/ CallLock(d)
    \/ CallUnlock(d)
    \/ CallRun(d)
    \/ CallVersion(d)
    \/ CallDrop(d)
    \/ SetVersionBegin(d)
    \/ SetVersionTruncate(d)
    \/ SetVersionInsert(d)
    \/ SetVersionCommit(d)

\* one caller at a time: a call starts when no other driver is inside one
Quiet(d) == \A e \in Drivers \ {d} : Idle(e)

Next ==
    /\ \/ \E d \in Drivers : Quiet(d) /\ Step(d)
       \/ CallRegistered
    /\ UNCHANGED mongo

Spec == Init /\ [][Next]_vars

\* -------------------------------------- two drivers at the same time
\* constructions, Version and SetVersion calls of the drivers, the
\* statements of one call between those of another
ConcStep(d) ==
    \/ CallWithInstance(d)
    \/ CallVersion(d)
    \/ SetVersionBegin(d)
    \/ SetVersionTruncate(d)
    \/ SetVersionInsert(d)
    \/ SetVersionCommit(d)

ConcNext ==
    /\ \E d \in Drivers : ConcStep(d)
    /\ UNCHANGED mongo

ConcSpec == Init /\ [][ConcNext]_vars

\* ---------------------------------------- the document store on its own
DocInit ==
    /\ env = [backend |-> "mongodb", databaseName |-> "testMigration", schemaName |-> ""]
    /\ db = EmptyDb
    /\ drv = [d \in Drivers |-> NoDriver]
    /\ pc = [d \in Drivers |-> "idle"]
    /\ call = [d \in Drivers |-> NoCall]
    /\ last = Returned("d1", "none", "", NoArgs, NoErr, 0, FALSE, "none")
    /\ everSet = FALSE
    /\ mongo = NoMongo

\* WithInstance(client, &Config{DatabaseName, TransactionMode})
MongoWithInstance ==
    \E transactionMode \in BOOLEAN :
        mongo' = [mongo EXCEPT !.open = TRUE, !.TransactionMode = transactionMode]

\* d.Run(cmds) on the driver constructed last
CallMongoRun ==
    /\ mongo.open
    /\ \E cmds \in DocPayloads :
          LET r == MongoRun(mongo.TransactionMode, cmds, mongo.docs)
          IN  mongo' = [mongo EXCEPT !.docs = r.docs, !.ran = TRUE,
                                     !.mode = mongo.TransactionMode, !.cmds = cmds,
                                     !.before = mongo.docs, !.err = r.err]

DocNext ==
    /\ MongoWithInstance \/ CallMongoRun
    /\ UNCHANGED <<env, db, drv, pc, call, last, everSet>>

DocSpec == DocInit /\ [][DocNext]_vars

\* ================================================================ claims
\* the most recent call is a SetVersion on d that returned no error
SetVersionOk(d) == last.op = "SetVersion" /\ last.drv = d /\ last.err = NoErr

\* the most recent call is a Version() whose query the backend ran, directly
\* after the successful calls named by after on the same driver
VersionAfter(after) == last.op = "Version" /\ last.after = after /\ last.fault = "none"

VersionReturns(version, dirty, err) == last.rv = version /\ last.rd = dirty /\ last.err = err

\* C1: for every v >= 0 and every d, a successful SetVersion(v, d)
\* immediately followed by Version() on the same driver returns exactly
\* (v, d) with no error, whatever the control table held before.
C1_RoundTrip ==
    (last.op = "Version" /\ last.after \in {"SetVersion", "SetVersion,SetVersion"}
        /\ last.fault = "none" /\ last.args.version >= 0)
        => VersionReturns(last.args.version, last.args.dirty, NoErr)

C1_Witness ==
    /\ VersionAfter("SetVersion")
    /\ last.args = Args(1, TRUE)
    /\ VersionReturns(1, TRUE, NoErr)

\* C2: a SetVersion that fails at any step returns an error and leaves the
\* control table holding exactly what it held before the call.
C2_FailedSetVersionKeepsRecord ==
    [][\A d \in Drivers :
          (pc[d] # "idle" /\ pc'[d] = "idle" /\ last'.err # NoErr)
              => (db'.ctlExists = call[d].pre.ctlExists /\ db'.ctl = call[d].pre.ctl)]_vars

\* C3: at most one driver instance opened against the database holds the
\* lock at any time.
C3_AtMostOneHolder ==
    Cardinality({d \in Drivers : drv[d].state = "open" /\ drv[d].isLocked}) <= 1

\* C4: Lock() on an instance that is already locked fails with ErrLocked and
\* leaves it locked; the Unlock() that follows succeeds and unlocks it; the
\* Lock() after that succeeds.
C4_LockTwice ==
    [][\A d \in Drivers :
          /\ (drv[d].isLocked /\ CallLock(d))
                => (last'.err = ErrLocked /\ drv'[d].isLocked)
          /\ (last.op = "Lock" /\ last.drv = d /\ last.err = ErrLocked /\ CallUnlock(d))
                => (last'.err = NoErr /\ ~drv'[d].isLocked)
          /\ (last.op = "Unlock" /\ last.drv = d /\ last.err = NoErr /\ CallLock(d))
                => (last'.err = NoErr /\ drv'[d].isLocked)]_vars

C4_Witness ==
    /\ last.op = "Lock" /\ last.err = ErrLocked
    /\ drv[last.drv].state = "open" /\ drv[last.drv].isLocked

\* C5: on a driver just constructed against a database on which SetVersion
\* was never called, Version() returns (NilVersion, false) and no error
\* (the connection itself working).
C5_NilVersion ==
    (last.op = "Version" /\ last.after = "WithInstance" /\ last.fault # "generic" /\ ~everSet)
        => VersionReturns(NilVersion, FALSE, NoErr)

C5_Witness ==
    /\ VersionAfter("WithInstance")
    /\ ~everSet
    /\ VersionReturns(NilVersion, FALSE, NoErr)

\* C6 as stated: for all v1, v2 and d1, d2, successful SetVersion(v1, d1),
\* then successful SetVersion(v2, d2), then Version() returns exactly
\* (v2, d2).
C6_OverwriteAnyVersion ==
    VersionAfter("SetVersion,SetVersion")
        => VersionReturns(last.args.version, last.args.dirty, NoErr)

\* C6 amended: after successful SetVersion(v1, d1) then SetVersion(v2, d2),
\* Version() returns (v2, d2) when v2 >= 0, the control table holding that one
\* row only, and (NilVersion, false) when v2 < 0, the table holding no row.
C6_Overwrite ==
    VersionAfter("SetVersion,SetVersion")
        => IF last.args.version >= 0
           THEN /\ VersionReturns(last.args.version, last.args.dirty, NoErr)
                /\ Cardinality(db.ctl) = 1
           ELSE /\ VersionReturns(NilVersion, FALSE, NoErr)
                /\ db.ctl = {}

C6_Witness ==
    /\ VersionAfter("SetVersion,SetVersion")
    /\ last.args = Args(0, TRUE)
    /\ VersionReturns(0, TRUE, NoErr)
    /\ db.ctl = {Row(0, 1)}

\* C7: a Run whose payload fails partway leaves the tables and rows of the
\* database as they were before the call.
C7_FailedRunChangesNothing ==
    [][\A d \in Drivers : (CallRun(d) /\ last'.err # NoErr) => db' = db]_vars

\* C8 as stated: after a successful SetVersion(v, d) the control table holds
\* no row when v is NilVersion, and exactly the row (v, d) for every other v.
C8_RowUnlessSentinel ==
    \A d \in Drivers :
        SetVersionOk(d) =>
            /\ db.ctlExists
            /\ db.ctl = IF last.args.version = NilVersion THEN {}
                        ELSE {Row(last.args.version, b2i(last.args.dirty))}

\* C8 amended: after a successful SetVersion(v, d) the control table holds
\* exactly the row (v, d) when v >= 0; when v < 0 (NilVersion included) it
\* holds no row and Version() returns (NilVersion, false).
C8_RowIffNonNegative ==
    \A d \in Drivers :
        SetVersionOk(d) =>
            /\ db.ctlExists
            /\ IF last.args.version >= 0
               THEN db.ctl = {Row(last.args.version, b2i(last.args.dirty))}
               ELSE /\ db.ctl = {}
                    /\ \A q \in QueryOutcomes(db, "none") :
                          Version(q) = [version |-> NilVersion, dirty |-> FALSE, err |-> NoErr]

C8_Witness ==
    /\ SetVersionOk(last.drv)
    /\ last.args.version = -2
    /\ db.ctlExists /\ db.ctl = {}

\* C9: Version() returns (NilVersion, false) without error only when the
\* control table has no row or does not exist; on any other backend error
\* it returns an error that carries the query.
C9_OtherErrorsSurface ==
    last.op = "Version" =>
        /\ (last.err = NoErr /\ last.rv = NilVersion)
              => (last.fault = "none" /\ (~db.ctlExists \/ db.ctl = {}))
        /\ last.fault # "none" => (last.err # NoErr /\ last.err.Query # <<>>)

C11_OnlySetVersionAndDropWrite ==
    [][\A d \in Drivers :
          (/\ last'.op \in {"Version", "Lock", "Unlock", "Close"}
           /\ CallVersion(d) \/ CallLock(d) \/ CallUnlock(d) \/ CallClose(d))
              => (db'.ctlExists = db.ctlExists /\ db'.ctl = db.ctl)]_vars

C11_Witness ==
    /\ last.op = "Version" /\ last.after = "" /\ last.fault = "none"
    /\ VersionReturns(1, TRUE, NoErr)
    /\ db.ctl = {Row(1, 1)}

\* C12: Unlock() on an instance that is not locked returns no error and
\* changes nothing; after an Unlock() every further Unlock() does the same.
C12_UnlockIdempotent ==
    [][\A d \in Drivers :
          /\ (~drv[d].isLocked /\ CallUnlock(d))
                => (last'.err = NoErr /\ drv' = drv /\ db' = db)
          /\ (last.op = "Unlock" /\ last.drv = d /\ CallUnlock(d))
                => (last'.err = NoErr /\ drv' = drv /\ db' = db)]_vars

C12_Witness ==
    /\ last.op = "Unlock" /\ last.after = "Unlock" /\ last.err = NoErr
    /\ ~drv[last.drv].isLocked

\* C13: every driver object a contract operation can be called on has a
\* config: the drivers WithInstance returned, and the driver value
\* registered at package initialisation, whose calls never meet a nil config.
C13_ConfigNeverNil ==
    /\ \A d \in Drivers : drv[d].state = "open" => ~drv[d].nilConfig
    /\ last.drv = "registered" => (~init.nilConfig /\ last.err # Panic)

\* an instruction of the payload meets the unique index: its value is in the
\* collection already or an earlier instruction of the payload inserts it
ViolatesUnique(cmds, docs) ==
    \E i \in 1..Len(cmds) : cmds[i] \in docs \/ \E j \in 1..(i - 1) : cmds[j] = cmds[i]

\* C14: with TransactionMode, a Run whose payload has an instruction that
\* violates the unique index returns an error and the collection holds what
\* it held before; a payload whose instructions all succeed adds all of its
\* documents.
C14_TransactionAllOrNothing ==
    (mongo.ran /\ mongo.mode) =>
        IF ViolatesUnique(mongo.cmds, mongo.before)
        THEN /\ mongo.err # NoErr
             /\ mongo.docs = mongo.before
        ELSE /\ mongo.err = NoErr
             /\ Cardinality(mongo.docs) = Cardinality(mongo.before) + Len(mongo.cmds)
             /\ \A i \in 1..Len(mongo.cmds) : mongo.cmds[i] \in mongo.docs

C14_Witness ==
    /\ mongo.ran /\ mongo.mode
    /\ Len(mongo.cmds) = 2
    /\ mongo.cmds[1] \notin mongo.before /\ mongo.cmds[2] \in mongo.before
    /\ mongo.err # NoErr
    /\ Cardinality(mongo.before) = 2 /\ mongo.docs = mongo.before

\* C15: every error Run returns for a failed execution of the payload
\* carries the complete payload as it was read, with the vendor's message
\* and with the generic "migration failed" alike.
C15_RunErrorCarriesPayload ==
    (last.op = "Run" /\ last.err # NoErr /\ last.fault # "read")
        => /\ last.err.kind = "database.Error"
           /\ last.err.Query = last.payload
           /\ last.err.Err = IF last.fault = "generic" THEN "migration failed" ELSE "vendor message"

C15_Witness ==
    /\ last.op = "Run" /\ last.fault = "none"
    /\ last.err.Err = "vendor message"
    /\ Len(last.payload) = 2
    /\ last.err.Query = last.payload

\* C16: Close() calls both conn.Close() and db.Close() even when the first
\* fails; it returns nil only when both succeed, and otherwise an error
\* whose text gives the outcome of both.
C16_CloseReportsBoth ==
    last.op = "Close" =>
        /\ drv[last.drv].state = "closed"
        /\ last.err = NoErr <=> last.fault = "none"
        /\ last.fault = "conn" => last.err.Err = "conn: connErr, db: <nil>"
        /\ last.fault = "db" => last.err.Err = "conn: <nil>, db: dbErr"
        /\ last.fault = "conn,db" => last.err.Err = "conn: connErr, db: dbErr"

C16_Witness ==
    /\ last.op = "Close" /\ last.fault = "conn,db"
    /\ drv[last.drv].state = "closed"
    /\ last.err.Err = "conn: connErr, db: dbErr"

\* C17: whatever the interleaving of the constructions and SetVersion calls
\* of the drivers of one database, the rows committed to the control table
\* are at most one.
C17_AtMostOneRow == Cardinality(db.ctl) <= 1

\* C18: a Version() call of one driver, made while another driver is inside
\* SetVersion(v2, d2), v2 >= 0, between its table clear and its commit over
\* a record (v1, d1), returns (v1, d1) or (v2, d2), never the sentinel.
C18_ClearNotObservable ==
    \A e \in Drivers :
        (/\ last.op = "Version" /\ last.drv # e /\ last.fault = "none"
         /\ pc[e] \in {"insert", "commit"}
         /\ call[e].version >= 0
         /\ call[e].pre.ctl # {})
            => /\ last.err = NoErr
               /\ Row(last.rv, b2i(last.rd)) \in
                     call[e].pre.ctl \cup {Row(call[e].version, b2i(call[e].dirty))}

\* C19: ensureVersionTable takes the driver's lock once and releases it
\* before it returns, whether the table creation succeeds or fails: a driver
\* WithInstance returns is unlocked and the first Lock() on it succeeds.
C19_ConstructionReleasesLock ==
    /\ (last.op = "WithInstance" /\ last.err = NoErr)
          => (drv[last.drv].state = "open" /\ ~drv[last.drv].isLocked)
    /\ (last.op = "Lock" /\ last.after = "WithInstance")
          => (last.err = NoErr /\ drv[last.drv].isLocked)
    /\ \A d \in Drivers : \A fault \in {"none", "proc", "create"} :
          drv[d].state = "open"
              => ~ensureVersionTable(env.backend, [drv[d] EXCEPT !.isLocked = FALSE],
                                     db, fault).drv.isLocked

C19_Witness ==
    /\ last.op = "Lock" /\ last.after = "WithInstance" /\ last.err = NoErr
    /\ drv[last.drv].isLocked

\* C20: constructing a driver against a database whose control table holds
\* a record leaves the table and the record as they are, and Version() on the
\* new driver returns that record.
C20_ConstructionKeepsRecord ==
    [][\A d \in Drivers :
          /\ (/\ db.ctlExists /\ db.ctl # {}
              /\ last'.op = "WithInstance"
              /\ CallWithInstance(d)) => db' = db
          /\ (/\ last.op = "WithInstance" /\ last.drv = d /\ last.err = NoErr
              /\ db.ctl # {}
              /\ CallVersion(d) /\ last'.fault = "none")
                => (last'.err = NoErr /\ Row(last'.rv, b2i(last'.rd)) \in db.ctl)]_vars

C20_Witness ==
    /\ VersionAfter("WithInstance")
    /\ everSet
    /\ VersionReturns(1, TRUE, NoErr)
    /\ db.ctl = {Row(1, 1)}

\* C21: Drop(), whether it returns an error or not, leaves isLocked as it was
\* and the driver open, its connection usable for the next call.
C21_DropKeepsLockAndConn ==
    [][\A d \in Drivers :
          (last'.op = "Drop" /\ CallDrop(d))
              => (drv' = drv /\ drv'[d].state = "open" /\ pc'[d] = "idle")]_vars

C21_Witness ==
    /\ last.op = "Drop" /\ last.err # NoErr
    /\ drv[last.drv].state = "open" /\ drv[last.drv].isLocked

\* the backend reports an empty name where the driver asks for its identity
EmptyIdentity == env.schemaName = "" \/ (env.backend = "mssql" /\ env.databaseName = "")

\* C22: the config of a driver WithInstance returned names the schema (and,
\* on SQL Server, the database) the backend reports, never empty, whatever
\* the caller passed; when the backend reports an empty name WithInstance
\* returns ErrNoDatabaseName or ErrNoSchema, no driver is made, no lock taken
\* and no control table created.
C22_IdentityFromBackend ==
    /\ \A d \in Drivers : drv[d].state # "none" =>
          /\ ~EmptyIdentity
          /\ drv[d].config.SchemaName = env.schemaName
          /\ drv[d].config.DatabaseName =
                IF env.backend = "mssql" THEN env.databaseName ELSE ""
    /\ EmptyIdentity =>
          /\ db = EmptyDb
          /\ \A d \in Drivers : drv[d] = NoDriver
          /\ (/\ last.op = "WithInstance"
              /\ last.fault \in {"none", "conn", "create", "proc"}
              /\ last.err # ErrNilConfig)
                => last.err = IF env.backend = "mssql" /\ env.databaseName = ""
                              THEN ErrNoDatabaseName ELSE ErrNoSchema

C22_Witness ==
    /\ last.op = "WithInstance" /\ last.err = NoErr
    /\ env.backend = "mssql"
    /\ drv[last.drv].config.DatabaseName = "master"
    /\ drv[last.drv].config.SchemaName = "dbo"

\* C23: every row of the control table has version >= 0, and a negative
\* version returned by Version() without error is NilVersion with
\* dirty = false.
C23_NoNegativeRow ==
    /\ \A r \in db.ctl : r.version >= 0
    /\ (last.op = "Version" /\ last.err = NoErr /\ last.rv < 0)
          => (last.rv = NilVersion /\ ~last.rd)

C23_Witness ==
    /\ VersionAfter("SetVersion")
    /\ last.args.version = -2 /\ last.args.dirty
    /\ VersionReturns(NilVersion, FALSE, NoErr)
    /\ db.ctlExists /\ db.ctl = {}

====
